---- MODULE Spec2Model ----
(***************************************************************************)
(* ctru-rs, services/ndsp/wave.rs: the owned sample container WaveBuffer,  *)
(* the in-flight handle WaveInfo borrowing it, the WaveStatus decoding and *)
(* the two destructors, run against the NDSP channel queues that play the  *)
(* submitted descriptors asynchronously.                                   *)
(***************************************************************************)
EXTENDS Integers, Sequences, FiniteSets, TLC

\* ------------------------------------------------------------------ bounds
NumBuffers == 1
NumHandles == 2
MaxLen == 4
MaxChannel == 1

Buffers == 1..NumBuffers
Handles == 1..NumHandles
Lens == 0..MaxLen
\* The blocks handed to the channels are full blocks of 16-bit mono samples;
\* every other length and format is an input of SpecBuffer, which runs the
\* buffer arithmetic without the hardware.
PlayLens == {MaxLen}
Channels == 0..MaxChannel

\* ------------------------------------------------------- program constants
NDSP_WBUF_FREE == 0
NDSP_WBUF_QUEUED == 1
NDSP_WBUF_PLAYING == 2
NDSP_WBUF_DONE == 3

U8 == 256

None == -1
NullPtr == 0

AudioFormats == {"PCM8Mono", "PCM16Mono", "PCM8Stereo", "PCM16Stereo"}
PlayFormats == {"PCM16Mono"}

\* Bytes of one frame of the format (AudioFormat::sample_size).
sample_size(audio_format) ==
    CASE audio_format = "PCM8Mono" -> 1
      [] audio_format = "PCM16Mono" -> 2
      [] audio_format = "PCM8Stereo" -> 2
      [] audio_format = "PCM16Stereo" -> 4

VARIABLES
    wavebuffers,   \* buffer slot -> WaveBuffer (with the cache calls made for it)
    waveinfos,     \* handle slot -> WaveInfo (with the clear calls its drop made)
    chn,           \* channel id -> the descriptors the channel holds, head first
    panicked,      \* "none", or the operation whose unwrap failed
    value,         \* the encoded status byte under decoding
    decoded,       \* what decoding it gave
    vram,          \* the VRAM pool's blocks and the last VramAllocator call
    mii            \* the MiiSelector's configured options and its last launch

vars == <<wavebuffers, waveinfos, chn, panicked, value, decoded, vram, mii>>

\* ------------------------------------------------------------- WaveStatus
\* A decoder that keeps only the low two bits of the byte.
try_from_masked(v) ==
    CASE v % 4 = 0 -> [ok |-> TRUE, status |-> "Free"]
      [] v % 4 = 1 -> [ok |-> TRUE, status |-> "Queued"]
      [] v % 4 = 2 -> [ok |-> TRUE, status |-> "Playing"]
      [] v % 4 = 3 -> [ok |-> TRUE, status |-> "Done"]

\* impl TryFrom<u8> for WaveStatus
try_from(v) ==
    CASE v = 0 -> [ok |-> TRUE, status |-> "Free"]
      [] v = 1 -> [ok |-> TRUE, status |-> "Queued"]
      [] v = 2 -> [ok |-> TRUE, status |-> "Playing"]
      [] v = 3 -> [ok |-> TRUE, status |-> "Done"]
      [] OTHER -> [ok |-> FALSE, status |-> "Invalid WaveInfo Status code"]

\* WaveInfo::get_status: try_into().unwrap(); "panic" stands for the failed unwrap.
get_status(info) ==
    LET r == try_from(info.raw_data.status)
    IN  IF r.ok THEN r.status ELSE "panic"

\* ------------------------------------------------------------- WaveBuffer
\* dirty: what the CPU cache holds that memory does not: "clean", "fill" (the
\* bytes the block was filled with before it was wrapped) or "rewrite" (bytes
\* written later through get_mut_data).
NoBuffer ==
    [state |-> "none", len |-> 0, audio_format |-> "PCM8Mono", nsamples |-> 0,
     dirty |-> "clean", cache_calls |-> <<>>]

\* A constructor that takes the byte length for the sample count.
WaveBuffer_new_bytes(len, audio_format, flush_ok) ==
    [ok |-> TRUE,
     buffer |-> [state |-> "live", len |-> len, audio_format |-> audio_format,
                 nsamples |-> len,
                 dirty |-> IF flush_ok THEN "clean" ELSE "fill",
                 cache_calls |-> <<"flush">>]]

\* WaveBuffer::new(data, audio_format) with the outcome of DSP_FlushDataCache,
\* which `let _r` discards: the constructor returns Ok whatever the flush said.
WaveBuffer_new(len, audio_format, flush_ok) ==
    [ok |-> TRUE,
     buffer |-> [state |-> "live",
                 len |-> len,
                 audio_format |-> audio_format,
                 nsamples |-> len \div sample_size(audio_format),
                 dirty |-> IF flush_ok THEN "clean" ELSE "fill",
                 cache_calls |-> <<"flush">>]]

\* A mutation helper that flushes what it hands out.
get_mut_data_reflush(buffer) ==
    [buffer EXCEPT !.dirty = "clean", !.cache_calls = Append(@, "flush")]

\* WaveBuffer::get_mut_data followed by a CPU write through the slice: the slice
\* has the block's length, so only the bytes (and the cache) change.
get_mut_data(buffer) == [buffer EXCEPT !.dirty = "rewrite"]

get_format(buffer) == buffer.audio_format

get_sample_amount(buffer) == buffer.nsamples

\* impl Drop for WaveBuffer: one DSP_InvalidateDataCache, result shrugged off.
\* len().try_into().unwrap() narrows usize to u32, which are the same 32 bits on
\* the armv6k target, so the unwrap cannot fail. The block is released after.
drop_WaveBuffer(buffer) ==
    [panic |-> FALSE,
     buffer |-> [NoBuffer EXCEPT !.state = "dropped",
                                 !.cache_calls = Append(buffer.cache_calls, "invalidate")]]

\* --------------------------------------------------------------- WaveInfo
NoInfo ==
    [state |-> "none", buffer |-> 0,
     raw_data |-> [data_vaddr |-> NullPtr, nsamples |-> 0, looping |-> FALSE,
                   status |-> 0, sequence_id |-> 0, next |-> NullPtr],
     played_on_channel |-> None, clear_calls |-> <<>>]

\* A constructor that takes over the status of a finished descriptor.
WaveInfo_new_stale(b, buffer, looping) ==
    [state |-> "live", buffer |-> b,
     raw_data |-> [data_vaddr |-> b,
                   nsamples |-> get_sample_amount(buffer),
                   looping |-> looping,
                   status |-> NDSP_WBUF_DONE, sequence_id |-> 0, next |-> NullPtr],
     played_on_channel |-> None, clear_calls |-> <<>>]

\* A constructor that describes the block by its byte length.
WaveInfo_new_len(b, buffer, looping) ==
    [state |-> "live", buffer |-> b,
     raw_data |-> [data_vaddr |-> b,
                   nsamples |-> buffer.len,
                   looping |-> looping,
                   status |-> 0, sequence_id |-> 0, next |-> NullPtr],
     played_on_channel |-> None, clear_calls |-> <<>>]

\* WaveInfo::new(buffer, looping); b is the borrowed buffer, whose data address
\* the descriptor takes (get_sample_amount() as u32 keeps the 32-bit usize).
WaveInfo_new(b, buffer, looping) ==
    [state |-> "live", buffer |-> b,
     raw_data |-> [data_vaddr |-> b,
                   nsamples |-> get_sample_amount(buffer),
                   looping |-> looping,
                   status |-> 0, sequence_id |-> 0, next |-> NullPtr],
     played_on_channel |-> None, clear_calls |-> <<>>]

\* A set_channel that leaves the channel unrecorded.
set_channel_unrecorded(info, id) == info

\* A set_channel that also rewinds the descriptor it binds.
set_channel_rewinds(info, id) ==
    [info EXCEPT !.played_on_channel = id % U8, !.raw_data.nsamples = 0]

\* A set_channel that records the channel after the one given.
set_channel_next(info, id) == [info EXCEPT !.played_on_channel = (id + 1) % U8]

\* WaveInfo::set_channel(id): Some(id as u8)
set_channel(info, id) == [info EXCEPT !.played_on_channel = id % U8]

\* WaveInfo::get_mut_wavebuffer: the exclusive reference to the borrowed buffer.
get_mut_wavebuffer(info) == info.buffer

\* What is left of a dropped handle: the status its descriptor held when it was
\* dropped and the clear calls its destructor made.
Dropped(info, calls) ==
    [NoInfo EXCEPT !.state = "dropped",
                   !.raw_data.status = info.raw_data.status,
                   !.clear_calls = calls]

\* A destructor that takes only Free for finished, so it clears on Done too.
drop_WaveInfo_done_clears(info) ==
    IF get_status(info) = "panic" THEN
        [panic |-> TRUE, clear |-> None, info |-> info]
    ELSE IF get_status(info) = "Free" THEN
        [panic |-> FALSE, clear |-> None, info |-> Dropped(info, <<>>)]
    ELSE IF info.played_on_channel = None THEN
        [panic |-> TRUE, clear |-> None, info |-> info]
    ELSE
        [panic |-> FALSE, clear |-> info.played_on_channel,
         info |-> Dropped(info, <<info.played_on_channel>>)]

\* A destructor that clears only what is playing and lets a queued one go.
drop_WaveInfo_skips_queued(info) ==
    IF get_status(info) = "panic" THEN
        [panic |-> TRUE, clear |-> None, info |-> info]
    ELSE IF get_status(info) # "Playing" THEN
        [panic |-> FALSE, clear |-> None, info |-> Dropped(info, <<>>)]
    ELSE IF info.played_on_channel = None THEN
        [panic |-> TRUE, clear |-> None, info |-> info]
    ELSE
        [panic |-> FALSE, clear |-> info.played_on_channel,
         info |-> Dropped(info, <<info.played_on_channel>>)]

\* A destructor that marks the descriptor Free before letting it go.
drop_WaveInfo_marks_free(info) ==
    IF get_status(info) = "panic" THEN
        [panic |-> TRUE, clear |-> None, info |-> info]
    ELSE IF get_status(info) \in {"Free", "Done"} THEN
        [panic |-> FALSE, clear |-> None,
         info |-> [Dropped(info, <<>>) EXCEPT !.raw_data.status = NDSP_WBUF_FREE]]
    ELSE IF info.played_on_channel = None THEN
        [panic |-> TRUE, clear |-> None, info |-> info]
    ELSE
        [panic |-> FALSE, clear |-> info.played_on_channel,
         info |-> [Dropped(info, <<info.played_on_channel>>)
                       EXCEPT !.raw_data.status = NDSP_WBUF_FREE]]

\* impl Drop for WaveInfo: whether it panicked, the channel it cleared (or None)
\* and the handle after it.
drop_WaveInfo(info) ==
    IF get_status(info) = "panic" THEN
        [panic |-> TRUE, clear |-> None, info |-> info]
    ELSE IF get_status(info) \in {"Free", "Done"} THEN
        [panic |-> FALSE, clear |-> None, info |-> Dropped(info, <<>>)]
    ELSE IF info.played_on_channel = None THEN
        [panic |-> TRUE, clear |-> None, info |-> info]
    ELSE
        [panic |-> FALSE, clear |-> info.played_on_channel,
         info |-> Dropped(info, <<info.played_on_channel>>)]

\* A handle that holds a shared reference, which excludes nothing.
Borrowed_shared(b) == FALSE

\* The buffer is mutably borrowed by a live handle (the &'b mut of WaveInfo<'b>).
Borrowed(b) == \E h \in Handles : waveinfos[h].state = "live" /\ waveinfos[h].buffer = b

\* ------------------------------------------------- NDSP channel subsystem
\* A channel holds, for each descriptor in its pending list, the descriptor's
\* place (the handle) and the sample address it reads from.
Entry(infos, h) == [wavebuf |-> h, data_vaddr |-> infos[h].raw_data.data_vaddr]

\* ndspChnWaveBufAdd(c, &mut raw_data): the descriptor joins the channel's pending
\* list (status Queued) behind the list's tail, whose link pointer it becomes.
ndspChnWaveBufAdd(infos, c, h) ==
    LET queued == [infos EXCEPT ![h].raw_data.status = NDSP_WBUF_QUEUED,
                                ![h].raw_data.sequence_id = Len(chn[c]) + 1,
                                ![h].raw_data.next = NullPtr]
    IN  IF chn[c] = <<>> THEN queued
        ELSE [queued EXCEPT ![chn[c][Len(chn[c])].wavebuf].raw_data.next = h]

\* ndspChnWaveBufClear(id): the channel drops everything it holds.
ndspChnWaveBufClear(queues, id) ==
    [c \in Channels |-> IF c = id THEN <<>> ELSE queues[c]]

\* ----------------------------------------------------------------- vram.rs
\* Bytes of the pool, its first address, and the alignments and sizes requested.
VramSize == 4
VramBase == 4
Aligns == {1, 2, 4}
Sizes == 0..(VramSize + 1)
VramAddrs == VramBase..(VramBase + VramSize - 1)

\* Bytes held by a set of blocks.
RECURSIVE BlockBytes(_)
BlockBytes(blocks) ==
    IF blocks = {} THEN 0
    ELSE LET blk == CHOOSE x \in blocks : TRUE
         IN  blk.size + BlockBytes(blocks \ {blk})

\* ctru_sys::vramSpaceFree
vramSpaceFree(blocks) == VramSize - BlockBytes(blocks)

\* The addresses at which a block of the size and alignment fits.
Fits(blocks, size, align) ==
    {a \in VramAddrs :
        /\ a % align = 0
        /\ a + size <= VramBase + VramSize
        /\ \A blk \in blocks : a + size <= blk.addr \/ blk.addr + blk.size <= a
        /\ \A blk \in blocks : blk.addr # a}

\* ctru_sys::vramMemAlign: the pointers it can return. A request that fits gets
\* the lowest fitting address, one that does not gets null; whether a request
\* for zero bytes gets a block is the pool's choice.
vramMemAlign(blocks, size, align) ==
    LET fits == Fits(blocks, size, align)
        first == {a \in fits : \A o \in fits : a <= o}
    IN  IF fits = {} THEN {NullPtr}
        ELSE IF size = 0 THEN first \cup {NullPtr}
        ELSE first

\* An allocate whose slice is as long as the alignment.
allocate_align_len(pointer, layout) ==
    IF pointer = NullPtr THEN [ok |-> FALSE, err |-> "AllocError", ptr |-> NullPtr, len |-> 0]
    ELSE [ok |-> TRUE, err |-> "", ptr |-> pointer, len |-> layout.align]

\* VramAllocator::allocate, after vramMemAlign returned pointer.
allocate(pointer, layout) ==
    IF pointer = NullPtr THEN [ok |-> FALSE, err |-> "AllocError", ptr |-> NullPtr, len |-> 0]
    ELSE [ok |-> TRUE, err |-> "", ptr |-> pointer, len |-> layout.size]

\* VramAllocator::free_space
free_space(blocks) == vramSpaceFree(blocks)

NoCall == [op |-> "none", size |-> 0, align |-> 1, result |-> allocate(NullPtr, [size |-> 0, align |-> 1])]
NoVram == [blocks |-> {}, last |-> NoCall]

\* ------------------------------------------------- applets/mii_selector.rs
\* bitflags Options: u32, with the bits of ctru_sys::MIISELECTOR_CANCEL, _GUESTS,
\* _TOP and _GUESTSTART.
ENABLE_CANCEL == 1
ENABLE_GUESTS == 2
USE_TOP_SCREEN == 4
START_WITH_GUESTS == 8
Flags == {ENABLE_CANCEL, ENABLE_GUESTS, USE_TOP_SCREEN, START_WITH_GUESTS}

\* impl BitAnd for Options: the intersection of the two bit sets.
RECURSIVE bitand(_, _)
bitand(a, b) ==
    IF a = 0 \/ b = 0 THEN 0
    ELSE (a % 2) * (b % 2) + 2 * bitand(a \div 2, b \div 2)

\* impl BitOr for Options: the union of the two bit sets.
RECURSIVE bitor(_, _)
bitor(a, b) ==
    IF a = 0 THEN b
    ELSE IF b = 0 THEN a
    ELSE (IF a % 2 = 1 \/ b % 2 = 1 THEN 1 ELSE 0) + 2 * bitor(a \div 2, b \div 2)

\* Options::contains and Options::bits
contains(options, flag) == bitand(options, flag) = flag
bits(options) == options

\* MiiSelector::set_options: overwrites the options of the configuration.
set_options(config, options) == [config EXCEPT !.options = bits(options)]

\* guest_mii_index of a user-made Mii: 0xFFFFFFFF, written as the 32-bit
\* integer with the same bits.
NO_GUEST == -1
MaxGuestIndex == 1
GuestIndexes == (0..MaxGuestIndex) \cup {NO_GUEST}

\* guest_mii_name: the UTF-16 units of a guest name (NUL, 'A'), NameLen of
\* them standing for the twelve of the array.
NameLen == 2
NameUnits == {0, 65}
Names == [1..NameLen -> NameUnits]

\* <[u16]>::reverse
Reverse(units) == [i \in 1..Len(units) |-> units[Len(units) + 1 - i]]

HighSurrogates == 55296..56319
LowSurrogates == 56320..57343

\* String::from_utf16: the code points of the units, or an error on an
\* unpaired surrogate.
RECURSIVE from_utf16(_)
from_utf16(v) ==
    IF v = <<>> THEN [ok |-> TRUE, string |-> <<>>]
    ELSE IF v[1] \notin HighSurrogates \cup LowSurrogates THEN
        LET rest == from_utf16(Tail(v))
        IN  [ok |-> rest.ok, string |-> IF rest.ok THEN <<v[1]>> \o rest.string ELSE <<>>]
    ELSE IF v[1] \in HighSurrogates /\ Len(v) >= 2 /\ v[2] \in LowSurrogates THEN
        LET rest == from_utf16(Tail(Tail(v)))
            c == 65536 + (v[1] - 55296) * 1024 + (v[2] - 56320)
        IN  [ok |-> rest.ok, string |-> IF rest.ok THEN <<c>> \o rest.string ELSE <<>>]
    ELSE [ok |-> FALSE, string |-> <<>>]

NoType == [kind |-> "none", index |-> 0, name |-> <<>>]
NoResult == [kind |-> "none", err |-> "", mii_type |-> NoType]

\* impl From<MiiSelectorReturn> for Selection; kind "panic" stands for the
\* failed unwrap of the name.
Selection_from(ret) ==
    IF ret.guest_mii_index # NO_GUEST THEN
        LET name == from_utf16(Reverse(ret.guest_mii_name))
        IN  IF name.ok THEN
                [NoResult EXCEPT !.kind = "Ok",
                                 !.mii_type = [kind |-> "Guest",
                                               index |-> ret.guest_mii_index,
                                               name |-> name.string]]
            ELSE [NoResult EXCEPT !.kind = "panic"]
    ELSE [NoResult EXCEPT !.kind = "Ok", !.mii_type.kind = "User"]

\* A launch that validates the checksum before looking at no_mii_selected.
launch_checksum_first(ret) ==
    IF ~ret.checksum_valid THEN
        [NoResult EXCEPT !.kind = "Err", !.err = "InvalidChecksum"]
    ELSE IF ret.no_mii_selected # 0 THEN
        [NoResult EXCEPT !.kind = "Err", !.err = "NoMiiSelected"]
    ELSE Selection_from(ret)

\* MiiSelector::launch, after miiSelectorLaunch filled ret; checksum_valid is
\* what miiSelectorChecksumIsValid answers for it.
launch(ret) ==
    IF ret.no_mii_selected # 0 THEN
        [NoResult EXCEPT !.kind = "Err", !.err = "NoMiiSelected"]
    ELSE IF ret.checksum_valid THEN Selection_from(ret)
    ELSE [NoResult EXCEPT !.kind = "Err", !.err = "InvalidChecksum"]

NoRet ==
    [no_mii_selected |-> 0, checksum_valid |-> TRUE, guest_mii_index |-> NO_GUEST,
     guest_mii_name |-> [i \in 1..NameLen |-> 0]]
NoBuilt == [op |-> "none", lhs |-> 0, rhs |-> 0]
\* MiiSelector::new
NoMii == [options |-> 0, built |-> NoBuilt, launched |-> FALSE, ret |-> NoRet, result |-> NoResult]

\* ---------------------------------------------------------------- actions
NotDecoded == [ran |-> FALSE, result |-> try_from(0), got |-> "Free"]

Init ==
    /\ wavebuffers = [b \in Buffers |-> NoBuffer]
    /\ waveinfos = [h \in Handles |-> NoInfo]
    /\ chn = [c \in Channels |-> <<>>]
    /\ panicked = "none"
    /\ value = 0
    /\ decoded = NotDecoded
    /\ vram = NoVram
    /\ mii = NoMii

Running == panicked = "none"

\* let buffer = WaveBuffer::new(data, audio_format)?;
NewWaveBuffer(b, len, audio_format, flush_ok) ==
    /\ Running
    /\ wavebuffers[b].state = "none"
    /\ \A a \in Buffers : a < b => wavebuffers[a].state # "none"
    /\ LET r == WaveBuffer_new(len, audio_format, flush_ok)
       IN  wavebuffers' = IF r.ok THEN [wavebuffers EXCEPT ![b] = r.buffer]
                          ELSE wavebuffers
    /\ UNCHANGED <<waveinfos, chn, panicked, value, decoded, vram, mii>>

\* buffer.get_mut_data()[..] = ..; by the owner, no handle borrowing the buffer
WriteData(b) ==
    /\ Running
    /\ wavebuffers[b].state = "live"
    /\ ~Borrowed(b)
    /\ wavebuffers' = [wavebuffers EXCEPT ![b] = get_mut_data(@)]
    /\ UNCHANGED <<waveinfos, chn, panicked, value, decoded, vram, mii>>

\* drop(buffer); the borrow checker allows it once no handle borrows the buffer
DropWaveBuffer(b) ==
    /\ Running
    /\ wavebuffers[b].state = "live"
    /\ ~Borrowed(b)
    /\ LET r == drop_WaveBuffer(wavebuffers[b])
       IN  /\ wavebuffers' = [wavebuffers EXCEPT ![b] = r.buffer]
           /\ panicked' = IF r.panic THEN "WaveBuffer::drop" ELSE panicked
    /\ UNCHANGED <<waveinfos, chn, value, decoded, vram, mii>>

\* let info = WaveInfo::new(&mut buffer, looping);
NewWaveInfo(h, b, looping) ==
    /\ Running
    /\ waveinfos[h].state = "none"
    /\ \A g \in Handles : g < h => waveinfos[g].state # "none"
    /\ wavebuffers[b].state = "live"
    /\ ~Borrowed(b)
    /\ waveinfos' = [waveinfos EXCEPT ![h] = WaveInfo_new(b, wavebuffers[b], looping)]
    /\ UNCHANGED <<wavebuffers, chn, panicked, value, decoded, vram, mii>>

\* info.get_mut_wavebuffer().get_mut_data()[..] = ..;
WriteThroughInfo(h) ==
    /\ Running
    /\ waveinfos[h].state = "live"
    /\ LET b == get_mut_wavebuffer(waveinfos[h])
       IN  wavebuffers' = [wavebuffers EXCEPT ![b] = get_mut_data(@)]
    /\ UNCHANGED <<waveinfos, chn, panicked, value, decoded, vram, mii>>

\* info.get_status()
ReadStatus(h) ==
    /\ Running
    /\ waveinfos[h].state = "live"
    /\ panicked' = IF get_status(waveinfos[h]) = "panic" THEN "WaveInfo::get_status"
                   ELSE panicked
    /\ UNCHANGED <<wavebuffers, waveinfos, chn, value, decoded, vram, mii>>

\* submit(channel, descriptor): the channel records itself on a handle it is free
\* to take and enqueues the descriptor.
Submit(h, c) ==
    /\ Running
    /\ waveinfos[h].state = "live"
    /\ get_status(waveinfos[h]) = "Free"
    /\ LET bound == [waveinfos EXCEPT ![h] = set_channel(@, c)]
       IN  /\ waveinfos' = ndspChnWaveBufAdd(bound, c, h)
           /\ chn' = [chn EXCEPT ![c] = Append(@, Entry(bound, h))]
    /\ UNCHANGED <<wavebuffers, panicked, value, decoded, vram, mii>>

\* The hardware starts the head of a channel's pending list.
HwStart(c) ==
    /\ chn[c] # <<>>
    /\ waveinfos[Head(chn[c]).wavebuf].raw_data.status = NDSP_WBUF_QUEUED
    /\ waveinfos' = [waveinfos EXCEPT
                        ![Head(chn[c]).wavebuf].raw_data.status = NDSP_WBUF_PLAYING]
    /\ UNCHANGED <<wavebuffers, chn, panicked, value, decoded, vram, mii>>

\* The hardware finishes the descriptor it plays; a looping one never finishes.
HwFinish(c) ==
    /\ chn[c] # <<>>
    /\ waveinfos[Head(chn[c]).wavebuf].raw_data.status = NDSP_WBUF_PLAYING
    /\ ~waveinfos[Head(chn[c]).wavebuf].raw_data.looping
    /\ waveinfos' = [waveinfos EXCEPT
                        ![Head(chn[c]).wavebuf].raw_data.status = NDSP_WBUF_DONE]
    /\ chn' = [chn EXCEPT ![c] = Tail(@)]
    /\ UNCHANGED <<wavebuffers, panicked, value, decoded, vram, mii>>

\* drop(info)
DropWaveInfo(h) ==
    /\ Running
    /\ waveinfos[h].state = "live"
    /\ LET r == drop_WaveInfo(waveinfos[h])
       IN  /\ waveinfos' = [waveinfos EXCEPT ![h] = r.info]
           /\ panicked' = IF r.panic THEN "WaveInfo::drop" ELSE panicked
           /\ chn' = IF r.clear = None THEN chn ELSE ndspChnWaveBufClear(chn, r.clear)
    /\ UNCHANGED <<wavebuffers, value, decoded, vram, mii>>

Next ==
    \/ \E b \in Buffers, len \in PlayLens, f \in PlayFormats, ok \in BOOLEAN :
           NewWaveBuffer(b, len, f, ok)
    \/ \E b \in Buffers : WriteData(b)
    \/ \E b \in Buffers : DropWaveBuffer(b)
    \/ \E h \in Handles, b \in Buffers, looping \in BOOLEAN : NewWaveInfo(h, b, looping)
    \/ \E h \in Handles : WriteThroughInfo(h)
    \/ \E h \in Handles : ReadStatus(h)
    \/ \E h \in Handles, c \in Channels : Submit(h, c)
    \/ \E c \in Channels : HwStart(c)
    \/ \E c \in Channels : HwFinish(c)
    \/ \E h \in Handles : DropWaveInfo(h)

Spec == Init /\ [][Next]_vars

\* The buffer and handle operations alone, over blocks of every length.
NextBuffer ==
    \/ \E b \in Buffers, len \in Lens, f \in AudioFormats, ok \in BOOLEAN :
           NewWaveBuffer(b, len, f, ok)
    \/ \E b \in Buffers : WriteData(b)
    \/ \E b \in Buffers : DropWaveBuffer(b)
    \/ \E h \in Handles, b \in Buffers, looping \in BOOLEAN : NewWaveInfo(h, b, looping)
    \/ \E h \in Handles : WriteThroughInfo(h)
    \/ \E h \in Handles : DropWaveInfo(h)

SpecBuffer == Init /\ [][NextBuffer]_vars

\* Status decoding over every encoded byte: the byte is what the descriptor's
\* status field holds when get_status reads it.
InitDecode ==
    /\ wavebuffers = [b \in Buffers |-> NoBuffer]
    /\ waveinfos = [h \in Handles |-> NoInfo]
    /\ chn = [c \in Channels |-> <<>>]
    /\ panicked = "none"
    /\ value \in 0..(U8 - 1)
    /\ decoded = NotDecoded
    /\ vram = NoVram
    /\ mii = NoMii

DecodeStatus ==
    /\ ~decoded.ran
    /\ LET info == [NoInfo EXCEPT !.state = "live", !.raw_data.status = value]
       IN  /\ decoded' = [ran |-> TRUE, result |-> try_from(value),
                          got |-> get_status(info)]
           /\ panicked' = IF get_status(info) = "panic" THEN "WaveInfo::get_status"
                          ELSE panicked
    /\ UNCHANGED <<wavebuffers, waveinfos, chn, value, vram, mii>>

NextDecode == DecodeStatus

SpecDecode == InitDecode /\ [][NextDecode]_vars

\* ------------------------------------------------------------ VramAllocator
\* VramAllocator.allocate(layout), vramMemAlign returning pointer.
Allocate(size, align, pointer) ==
    /\ Running
    /\ pointer \in vramMemAlign(vram.blocks, size, align)
    /\ LET layout == [size |-> size, align |-> align]
       IN  vram' = [blocks |-> IF pointer = NullPtr THEN vram.blocks
                               ELSE vram.blocks \cup {[addr |-> pointer, size |-> size]},
                    last |-> [op |-> "allocate", size |-> size, align |-> align,
                              result |-> allocate(pointer, layout)]]
    /\ UNCHANGED <<wavebuffers, waveinfos, chn, panicked, value, decoded, mii>>

\* VramAllocator.deallocate(ptr, layout) of a block that allocate returned:
\* vramFree gives it back to the pool.
Deallocate(blk) ==
    /\ Running
    /\ blk \in vram.blocks
    /\ vram' = [blocks |-> vram.blocks \ {blk},
                last |-> [NoCall EXCEPT !.op = "deallocate", !.size = blk.size]]
    /\ UNCHANGED <<wavebuffers, waveinfos, chn, panicked, value, decoded, mii>>

\* VramAllocator::free_space()
FreeSpace ==
    /\ Running
    /\ vram' = [vram EXCEPT !.last = [NoCall EXCEPT !.op = "free_space",
                                                    !.size = free_space(vram.blocks)]]
    /\ UNCHANGED <<wavebuffers, waveinfos, chn, panicked, value, decoded, mii>>

NextVram ==
    \/ \E size \in Sizes, align \in Aligns, pointer \in VramAddrs \cup {NullPtr} :
           Allocate(size, align, pointer)
    \/ \E blk \in vram.blocks : Deallocate(blk)
    \/ FreeSpace

SpecVram == Init /\ [][NextVram]_vars

\* -------------------------------------------------------------- MiiSelector
\* mii_selector.set_options(lhs & rhs) and mii_selector.set_options(lhs | rhs)
SetOptions(op, lhs, rhs) ==
    /\ Running
    /\ LET options == IF op = "&" THEN bitand(lhs, rhs) ELSE bitor(lhs, rhs)
       IN  mii' = [set_options(mii, options) EXCEPT
                       !.built = [op |-> op, lhs |-> lhs, rhs |-> rhs]]
    /\ UNCHANGED <<wavebuffers, waveinfos, chn, panicked, value, decoded, vram>>

\* mii_selector.launch(), the applet filling ret.
Launch(ret) ==
    /\ Running
    /\ mii' = [mii EXCEPT !.launched = TRUE, !.ret = ret, !.result = launch(ret)]
    /\ panicked' = IF launch(ret).kind = "panic" THEN "Selection::from" ELSE panicked
    /\ UNCHANGED <<wavebuffers, waveinfos, chn, value, decoded, vram>>

MiiSelectorReturns ==
    [no_mii_selected : {0, 1}, checksum_valid : BOOLEAN,
     guest_mii_index : GuestIndexes, guest_mii_name : Names]

NextMii ==
    \/ \E op \in {"&", "|"}, lhs \in Flags, rhs \in Flags : SetOptions(op, lhs, rhs)
    \/ \E ret \in MiiSelectorReturns : Launch(ret)

SpecMii == Init /\ [][NextMii]_vars

\* ----------------------------------------------------------------- claims
InFlight(info) == info.raw_data.status \in {NDSP_WBUF_QUEUED, NDSP_WBUF_PLAYING}

Held(b) == \E c \in Channels : \E i \in 1..Len(chn[c]) : chn[c][i].data_vaddr = b

\* C1: a dropped handle has made exactly one clear call if its status was Queued
\* or Playing when it was dropped and none if it was Free or Done; a handle that
\* has not been dropped has made none.
C1_ClearIffInFlightAtDrop ==
    \A h \in Handles :
        /\ waveinfos[h].state = "dropped" =>
               Len(waveinfos[h].clear_calls) = (IF InFlight(waveinfos[h]) THEN 1 ELSE 0)
        /\ waveinfos[h].state # "dropped" => waveinfos[h].clear_calls = <<>>

\* One handle dropped after the full cycle, without a clear, and one dropped
\* while Playing, with its one clear.
C1_Witness ==
    \E g \in Handles, h \in Handles :
        /\ waveinfos[g].state = "dropped"
        /\ waveinfos[g].raw_data.status = NDSP_WBUF_DONE
        /\ waveinfos[g].clear_calls = <<>>
        /\ waveinfos[h].state = "dropped"
        /\ waveinfos[h].raw_data.status = NDSP_WBUF_PLAYING
        /\ Len(waveinfos[h].clear_calls) = 1

\* C2: once a buffer is dropped (invalidated and released), no channel holds a
\* descriptor that reads from its memory.
C2_NoChannelReadsDroppedBuffer ==
    \A b \in Buffers : wavebuffers[b].state = "dropped" => ~Held(b)

\* Every buffer dropped after a handle over it was dropped in flight.
C2_Witness ==
    /\ \A b \in Buffers : wavebuffers[b].state = "dropped"
    /\ \E h \in Handles :
           waveinfos[h].state = "dropped" /\ waveinfos[h].clear_calls # <<>>

\* C3: a live buffer's sample count is its byte length divided by its format's
\* frame size, rounded down (so exact when the length is a multiple of it).
C3_SampleCountIsLenOverFrame ==
    \A b \in Buffers :
        wavebuffers[b].state = "live" =>
            LET n == get_sample_amount(wavebuffers[b])
                frame == sample_size(get_format(wavebuffers[b]))
            IN  /\ n * frame <= wavebuffers[b].len
                /\ wavebuffers[b].len < (n + 1) * frame

\* A full block of 16-bit mono samples, rewritten through the handle that
\* borrows it: MaxLen bytes, MaxLen / 2 samples.
C3_Witness ==
    \E b \in Buffers :
        /\ wavebuffers[b].state = "live"
        /\ wavebuffers[b].len = MaxLen
        /\ wavebuffers[b].audio_format = "PCM16Mono"
        /\ wavebuffers[b].dirty = "rewrite"
        /\ 2 * get_sample_amount(wavebuffers[b]) = MaxLen - (MaxLen % 2)
        /\ Borrowed(b)

\* C4: the cache calls made for a buffer are one flush while it lives and one
\* flush followed by one invalidate once it is dropped, played or not.
C4_OneFlushThenOneInvalidate ==
    \A b \in Buffers :
        wavebuffers[b].cache_calls =
            CASE wavebuffers[b].state = "none" -> <<>>
              [] wavebuffers[b].state = "live" -> <<"flush">>
              [] wavebuffers[b].state = "dropped" -> <<"flush", "invalidate">>

\* A buffer rewritten, played to the end and dropped.
C4_Witness ==
    /\ \E b \in Buffers : wavebuffers[b].cache_calls = <<"flush", "invalidate">>
    /\ \E h \in Handles :
           waveinfos[h].state = "dropped" /\ waveinfos[h].raw_data.status = NDSP_WBUF_DONE

\* C5: a construction whose flush reports an error produces no buffer.
C5_FlushErrorFailsConstruction ==
    [][\A b \in Buffers, len \in Lens, f \in AudioFormats :
           NewWaveBuffer(b, len, f, FALSE) => wavebuffers'[b].state = "none"]_vars

\* C6: the bytes 0, 1, 2, 3 decode to Free, Queued, Playing, Done; every other
\* byte decodes to an error, on which get_status panics.
C6_DecodeStatus ==
    decoded.ran =>
        /\ value = 0 => decoded.result = [ok |-> TRUE, status |-> "Free"]
        /\ value = 1 => decoded.result = [ok |-> TRUE, status |-> "Queued"]
        /\ value = 2 => decoded.result = [ok |-> TRUE, status |-> "Playing"]
        /\ value = 3 => decoded.result = [ok |-> TRUE, status |-> "Done"]
        /\ value \in 0..3 => decoded.got = decoded.result.status /\ panicked = "none"
        /\ value \notin 0..3 =>
               /\ ~decoded.result.ok
               /\ decoded.got = "panic"
               /\ panicked = "WaveInfo::get_status"

\* The byte 4 decoded.
C6_Witness == decoded.ran /\ value = 4 /\ decoded.got = "panic"

\* C7: no destructor panics.
C7_DropNeverPanics == panicked \notin {"WaveInfo::drop", "WaveBuffer::drop"}

\* A handle dropped unbound, a handle dropped in flight and every buffer
\* dropped, with the program still running.
C7_Witness ==
    /\ Running
    /\ \A b \in Buffers : wavebuffers[b].state = "dropped"
    /\ \E g \in Handles, h \in Handles :
           /\ waveinfos[g].state = "dropped"
           /\ waveinfos[g].raw_data.status = NDSP_WBUF_FREE
           /\ waveinfos[h].state = "dropped"
           /\ waveinfos[h].clear_calls # <<>>

\* C8: the bytes of a buffer are not written through a handle whose status is
\* Queued or Playing.
C8_NoWriteWhileInFlight ==
    [][\A h \in Handles : WriteThroughInfo(h) => ~InFlight(waveinfos[h])]_vars

\* C9: at submission, nothing written through get_mut_data is still unflushed.
C9_RewriteFlushedBeforeSubmit ==
    [][\A h \in Handles, c \in Channels :
           Submit(h, c) => wavebuffers[waveinfos[h].buffer].dirty # "rewrite"]_vars

\* C10: while a handle lives, its address, sample count and loop flag keep their
\* values; its descriptor changes only in a step of the channel subsystem
\* (submit's enqueue, the hardware's start and finish); its destructor leaves
\* the status it read.
C10_DescriptorWrittenByHardwareOnly ==
    [][\A h \in Handles :
           /\ (waveinfos[h].state = "live" /\ waveinfos'[h].state = "live") =>
                  /\ waveinfos'[h].raw_data.data_vaddr = waveinfos[h].raw_data.data_vaddr
                  /\ waveinfos'[h].raw_data.nsamples = waveinfos[h].raw_data.nsamples
                  /\ waveinfos'[h].raw_data.looping = waveinfos[h].raw_data.looping
                  /\ waveinfos'[h].raw_data # waveinfos[h].raw_data =>
                         \/ \E g \in Handles, c \in Channels : Submit(g, c)
                         \/ \E c \in Channels : HwStart(c)
                         \/ \E c \in Channels : HwFinish(c)
           /\ (waveinfos[h].state = "live" /\ waveinfos'[h].state = "dropped") =>
                  waveinfos'[h].raw_data.status = waveinfos[h].raw_data.status]_vars

\* A handle bound, played to the end and still alive over a buffer rewritten
\* through it, its descriptor still the one it was built with.
C10_Witness ==
    \E h \in Handles :
        /\ waveinfos[h].state = "live"
        /\ waveinfos[h].played_on_channel # None
        /\ waveinfos[h].raw_data.status = NDSP_WBUF_DONE
        /\ waveinfos[h].raw_data.data_vaddr = waveinfos[h].buffer
        /\ waveinfos[h].raw_data.nsamples = wavebuffers[waveinfos[h].buffer].nsamples
        /\ wavebuffers[waveinfos[h].buffer].dirty = "rewrite"

\* The status cycle: each state's successor.
NextInCycle(status) == (status + 1) % 4

\* C11: a handle's status changes only to the next state of the cycle Free,
\* Queued, Playing, Done, (Free), and only in a step of the channel subsystem
\* (submit's enqueue, the hardware's start and finish); no handle or buffer
\* operation, its destructor included, changes it.
C11_StatusFollowsCycle ==
    [][\A h \in Handles :
           (/\ waveinfos[h].state # "none"
            /\ waveinfos'[h].raw_data.status # waveinfos[h].raw_data.status) =>
               /\ waveinfos'[h].raw_data.status = NextInCycle(waveinfos[h].raw_data.status)
               /\ waveinfos[h].state = "live"
               /\ waveinfos'[h].state = "live"
               /\ \/ \E c \in Channels : Submit(h, c)
                  \/ \E c \in Channels : HwStart(c)
                  \/ \E c \in Channels : HwFinish(c)]_vars

\* A handle that went Free, Queued, Playing, Done and is observed Done, after
\* an earlier handle was dropped while still Queued.
C11_Witness ==
    \E g \in Handles, h \in Handles :
        /\ waveinfos[g].state = "dropped"
        /\ waveinfos[g].raw_data.status = NDSP_WBUF_QUEUED
        /\ waveinfos[h].state = "live"
        /\ get_status(waveinfos[h]) = "Done"
        /\ ~waveinfos[h].raw_data.looping

\* C12: at most one live handle references a buffer, so at most one handle over
\* it is Queued or Playing.
C12_OneLiveHandlePerBuffer ==
    \A b \in Buffers :
        Cardinality({h \in Handles :
                        waveinfos[h].state = "live" /\ waveinfos[h].buffer = b}) <= 1

\* A second handle in flight over a buffer whose first handle was dropped.
C12_Witness ==
    \E g \in Handles, h \in Handles :
        /\ g < h
        /\ waveinfos[g].state = "dropped"
        /\ waveinfos[h].state = "live"
        /\ wavebuffers[waveinfos[h].buffer].state = "live"
        /\ InFlight(waveinfos[h])

\* C13: an allocate for which vramMemAlign returns no block returns AllocError,
\* does not panic and leaves free_space() and the blocks handed out unchanged;
\* one for which it returns a block returns that block with a length of exactly
\* the requested size.
C13_AllocateFailsCleanly ==
    [][\A size \in Sizes, align \in Aligns, pointer \in VramAddrs \cup {NullPtr} :
           (/\ vram'.last.op = "allocate"
            /\ vram'.last.size = size
            /\ vram'.last.align = align
            /\ Allocate(size, align, pointer)) =>
               IF pointer = NullPtr THEN
                   /\ ~vram'.last.result.ok
                   /\ vram'.last.result.err = "AllocError"
                   /\ panicked' = "none"
                   /\ free_space(vram'.blocks) = free_space(vram.blocks)
                   /\ vram'.blocks = vram.blocks
               ELSE
                   /\ vram'.last.result.ok
                   /\ vram'.last.result.ptr = pointer
                   /\ vram'.last.result.len = size
                   /\ panicked' = "none"]_vars

\* A failed allocate of a size the fragmented pool has room for in total, after
\* other allocations succeeded.
C13_Witness ==
    /\ vram.last.op = "allocate"
    /\ ~vram.last.result.ok
    /\ vram.last.size > 0
    /\ vram.last.size <= free_space(vram.blocks)
    /\ vram.blocks # {}

\* C14: the options built as ENABLE_CANCEL & ENABLE_GUESTS, as the Options
\* documentation builds them, have both the cancel flag and the guests flag set.
C14_AndSetsBothFlags ==
    mii.built = [op |-> "&", lhs |-> ENABLE_CANCEL, rhs |-> ENABLE_GUESTS] =>
        /\ contains(mii.options, ENABLE_CANCEL)
        /\ contains(mii.options, ENABLE_GUESTS)

\* C15: a live handle whose status is Queued or Playing has a channel recorded.
C15_InFlightHasChannel ==
    \A h \in Handles :
        (waveinfos[h].state = "live" /\ InFlight(waveinfos[h])) =>
            waveinfos[h].played_on_channel \in Channels

\* A handle playing on the last channel, with that channel recorded.
C15_Witness ==
    \E h \in Handles :
        /\ waveinfos[h].state = "live"
        /\ get_status(waveinfos[h]) = "Playing"
        /\ waveinfos[h].played_on_channel = MaxChannel
        /\ chn[MaxChannel] # <<>>

\* C16: set_channel records ids up to 255 as they are; submitting on channel c
\* records c on the handle, a live handle sits
\* only in the list of the channel it recorded, and the clear its destructor
\* issues is one clear of exactly that channel, leaving the other channels'
\* lists alone.
C16_ClearsRecordedChannel ==
    [][\A h \in Handles :
           /\ set_channel(waveinfos[h], U8 - 1).played_on_channel = U8 - 1
           /\ \A c \in Channels :
                  (/\ waveinfos'[h].raw_data.status # waveinfos[h].raw_data.status
                   /\ Submit(h, c)) => waveinfos'[h].played_on_channel = c
           /\ \A c \in Channels :
                  (/\ waveinfos[h].state = "live"
                   /\ \E i \in 1..Len(chn[c]) : chn[c][i].wavebuf = h) =>
                      waveinfos[h].played_on_channel = c
           /\ (/\ waveinfos[h].state = "live"
               /\ waveinfos'[h].state = "dropped"
               /\ waveinfos'[h].clear_calls # <<>>) =>
                  /\ waveinfos'[h].clear_calls = <<waveinfos[h].played_on_channel>>
                  /\ chn' = [c \in Channels |->
                                IF c = waveinfos[h].played_on_channel THEN <<>>
                                ELSE chn[c]]]_vars

\* A handle submitted on channel 0 and dropped while Playing, whose destructor
\* issued clear(0).
C16_Witness ==
    \E h \in Handles :
        /\ waveinfos[h].state = "dropped"
        /\ waveinfos[h].raw_data.status = NDSP_WBUF_PLAYING
        /\ waveinfos[h].clear_calls = <<0>>
        /\ chn[0] = <<>>

\* C17: WaveInfo::new gives a descriptor with the buffer's data address, the
\* buffer's sample count, the given loop flag, status Free, sequence id 0, a
\* null link and no channel recorded, whatever an earlier handle over the same
\* buffer went through; it touches no channel and no other handle.
C17_NewDescriptorIsFresh ==
    [][\A h \in Handles, b \in Buffers, looping \in BOOLEAN :
           NewWaveInfo(h, b, looping) =>
               /\ waveinfos'[h].state = "live"
               /\ waveinfos'[h].buffer = b
               /\ waveinfos'[h].raw_data =
                      [data_vaddr |-> b,
                       nsamples |-> get_sample_amount(wavebuffers[b]),
                       looping |-> looping,
                       status |-> NDSP_WBUF_FREE,
                       sequence_id |-> 0,
                       next |-> NullPtr]
               /\ get_status(waveinfos'[h]) = "Free"
               /\ waveinfos'[h].played_on_channel = None
               /\ waveinfos'[h].clear_calls = <<>>
               /\ chn' = chn
               /\ \A g \in Handles \ {h} : waveinfos'[g] = waveinfos[g]]_vars

\* A fresh looping handle over a buffer whose earlier handle played to Done.
C17_Witness ==
    \E g \in Handles, h \in Handles :
        /\ waveinfos[g].state = "dropped"
        /\ waveinfos[g].raw_data.status = NDSP_WBUF_DONE
        /\ waveinfos[h].state = "live"
        /\ waveinfos[h].raw_data.looping
        /\ waveinfos[h].raw_data.status = NDSP_WBUF_FREE
        /\ waveinfos[h].played_on_channel = None

====
